---------------------------- MODULE Spec2Model ----------------------------
(***************************************************************************)
(* A model of persona_chatbot.py: the console loan-intake bot.             *)
(*                                                                         *)
(* Text is modelled as TLA+ strings, handled character by character with   *)
(* Len, SubSeq and \o.  The module is written in ASCII, so the three       *)
(* non-ASCII punctuation marks of the source's literals are transliterated:*)
(* the right single quote as ', the en dash as - and the em dash as --.    *)
(* User input is drawn from the ASCII lines listed further down.           *)
(***************************************************************************)
EXTENDS Integers, Sequences, FiniteSets, TLC

(***************************************************************************)
(* str primitives of Python used by the program                            *)
(***************************************************************************)

\* s[i-1] of Python, as a one-character string
CharAt(s, i) == SubSeq(s, i, i)

UpperLetters ==
    {"A", "B", "C", "D", "E", "F", "G", "H", "I", "J", "K", "L", "M",
     "N", "O", "P", "Q", "R", "S", "T", "U", "V", "W", "X", "Y", "Z"}
LowerLetters ==
    {"a", "b", "c", "d", "e", "f", "g", "h", "i", "j", "k", "l", "m",
     "n", "o", "p", "q", "r", "s", "t", "u", "v", "w", "x", "y", "z"}
Digits == {"0", "1", "2", "3", "4", "5", "6", "7", "8", "9"}

\* c.lower() for an upper-case letter c
LowerOf ==
    "A" :> "a" @@ "B" :> "b" @@ "C" :> "c" @@ "D" :> "d" @@ "E" :> "e" @@ "F" :> "f" @@ "G" :> "g" @@
    "H" :> "h" @@ "I" :> "i" @@ "J" :> "j" @@ "K" :> "k" @@ "L" :> "l" @@ "M" :> "m" @@ "N" :> "n" @@
    "O" :> "o" @@ "P" :> "p" @@ "Q" :> "q" @@ "R" :> "r" @@ "S" :> "s" @@ "T" :> "t" @@ "U" :> "u" @@
    "V" :> "v" @@ "W" :> "w" @@ "X" :> "x" @@ "Y" :> "y" @@ "Z" :> "z"

\* int(c) for a digit c
DigitOf ==
    "0" :> 0 @@ "1" :> 1 @@ "2" :> 2 @@ "3" :> 3 @@ "4" :> 4 @@ "5" :> 5 @@ "6" :> 6 @@ "7" :> 7 @@ "8" :> 8 @@ "9" :> 9

IsUpper(c) == c \in UpperLetters
IsLetter(c) == c \in UpperLetters \/ c \in LowerLetters
\* \d of re, on ASCII text
IsDigit(c) == c \in Digits
\* \w of re, on ASCII text
IsWordChar(c) == IsLetter(c) \/ IsDigit(c) \/ c = "_"
\* str.isspace, on the whitespace a console line can hold
IsSpace(c) == c = " " \/ c = "\t"

DigitValue(c) == DigitOf[c]

LowerChar(c) == IF IsUpper(c) THEN LowerOf[c] ELSE c

RECURSIVE Lower(_)
\* str.lower
Lower(s) ==
    IF Len(s) = 0 THEN ""
    ELSE IF Len(s) = 1 THEN LowerChar(s)
    ELSE Lower(SubSeq(s, 1, Len(s) \div 2)) \o Lower(SubSeq(s, Len(s) \div 2 + 1, Len(s)))

RECURSIVE LStrip(_)
LStrip(s) ==
    IF Len(s) > 0 /\ IsSpace(CharAt(s, 1)) THEN LStrip(SubSeq(s, 2, Len(s))) ELSE s

RECURSIVE RStrip(_)
RStrip(s) ==
    IF Len(s) > 0 /\ IsSpace(CharAt(s, Len(s))) THEN RStrip(SubSeq(s, 1, Len(s) - 1)) ELSE s

\* str.strip
Strip(s) == RStrip(LStrip(s))

\* sub in s
Contains(s, sub) ==
    \E i \in 1..(Len(s) - Len(sub) + 1) : SubSeq(s, i, i + Len(sub) - 1) = sub

RECURSIVE RemoveChar(_, _)
\* s.replace(c, "") for a one-character c
RemoveChar(s, c) ==
    IF Len(s) = 0 THEN ""
    ELSE (IF CharAt(s, 1) = c THEN "" ELSE CharAt(s, 1)) \o RemoveChar(SubSeq(s, 2, Len(s)), c)

\* every character of s satisfies \d, and there is at least one
AllDigits(s) == Len(s) > 0 /\ \A i \in 1..Len(s) : IsDigit(CharAt(s, i))

RECURSIVE DigitsToNat(_)
\* int() of a string of decimal digits
DigitsToNat(s) ==
    IF Len(s) = 0 THEN 0
    ELSE 10 * DigitsToNat(SubSeq(s, 1, Len(s) - 1)) + DigitValue(CharAt(s, Len(s)))

RECURSIVE Pow10(_)
Pow10(k) == IF k = 0 THEN 1 ELSE 10 * Pow10(k - 1)

RECURSIVE Zeros(_)
Zeros(k) == IF k <= 0 THEN "" ELSE "0" \o Zeros(k - 1)

Doubled(s) == s \o s

RECURSIVE Repeat(_, _)
\* s * k
Repeat(s, k) ==
    IF k <= 0 THEN ""
    ELSE IF k % 2 = 0 THEN Doubled(Repeat(s, k \div 2))
    ELSE s \o Repeat(s, k - 1)


(***************************************************************************)
(* Python values: None, str, int and float, as records of one shape.       *)
(* A float is kept as the decimal mantissa * 10^e with a sign: a decimal   *)
(* numeral of at most 9 significant digits converts to a double and back   *)
(* to the same shortest decimal, so this is the value Python prints.       *)
(***************************************************************************)

None == [t |-> "None", s |-> "", n |-> 0, e |-> 0, neg |-> FALSE]
PyStr(x) == [t |-> "str", s |-> x, n |-> 0, e |-> 0, neg |-> FALSE]
PyInt(k) == [t |-> "int", s |-> "", n |-> k, e |-> 0, neg |-> FALSE]
\* a finite float: (-1)^neg * m * 10^x, m >= 0
PyFloat(isNeg, m, x) == [t |-> "float", s |-> "fin", n |-> m, e |-> x, neg |-> isNeg]
PyInf(isNeg) == [t |-> "float", s |-> "inf", n |-> 0, e |-> 0, neg |-> isNeg]
PyNan == [t |-> "float", s |-> "nan", n |-> 0, e |-> 0, neg |-> FALSE]

RECURSIVE NumDigits(_)
NumDigits(m) == IF m < 10 THEN 1 ELSE 1 + NumDigits(m \div 10)

RECURSIVE Normalise(_, _, _)
\* the same number with a mantissa that ends in no zero
Normalise(isNeg, m, x) ==
    IF m = 0 THEN PyFloat(isNeg, 0, 0)
    ELSE IF m % 10 = 0 THEN Normalise(isNeg, m \div 10, x + 1)
    ELSE PyFloat(isNeg, m, x)

\* the mantissa's digits, padded to 9
Mant9(v) == v.n * Pow10(9 - NumDigits(v.n))
\* the power of ten above the value: 10^(Order-1) <= |v| < 10^Order
Order(v) == NumDigits(v.n) + v.e

\* The double nearest to (-1)^neg * m * 10^x.  The largest double is
\* 1.7976931348623157e308 and what lies above it rounds to inf; half the
\* smallest subnormal is 2.4703282292062327e-324 and what lies below rounds to 0.
\* In between, a decimal of up to 17 significant digits is kept as typed: the
\* rounding of its last binary digit is not modelled (nor, below 2.3e-308, that
\* of the subnormals), and no field's range comes near either end.
RoundToDouble(v) ==
    IF v.n = 0 THEN v
    ELSE IF Order(v) > 309 \/ (Order(v) = 309 /\ Mant9(v) > 179769313) THEN PyInf(v.neg)
    ELSE IF Order(v) < -323 \/ (Order(v) = -323 /\ Mant9(v) <= 247032822)
         THEN PyFloat(v.neg, 0, 0)
    ELSE v
ToDouble(isNeg, m, x) == RoundToDouble(Normalise(isNeg, m, x))

\* int -> float, as a comparison of a float with an int does
IntToFloat(k) == IF k < 0 THEN Normalise(TRUE, 0 - k, 0) ELSE Normalise(FALSE, k, 0)
AsFloat(v) == IF v.t = "int" THEN IntToFloat(v.n) ELSE v

IsNan(v) == v.s = "nan"
IsZero(v) == v.s = "fin" /\ v.n = 0
Sgn(v) == IF IsZero(v) THEN 0 ELSE IF v.neg THEN -1 ELSE 1
\* |a| < |b| for two non-zero, non-nan floats
MagLess(a, b) ==
    IF a.s = "inf" THEN FALSE
    ELSE IF b.s = "inf" THEN TRUE
    ELSE \/ Order(a) < Order(b)
         \/ (Order(a) = Order(b) /\ Mant9(a) < Mant9(b))
MagEq(a, b) ==
    \/ (a.s = "inf" /\ b.s = "inf")
    \/ (a.s = "fin" /\ b.s = "fin" /\ a.n = b.n /\ a.e = b.e)

\* a < b and a == b of two floats
FloatLess(a, b) ==
    /\ ~IsNan(a) /\ ~IsNan(b)
    /\ IF Sgn(a) # Sgn(b) THEN Sgn(a) < Sgn(b)
       ELSE IF Sgn(a) = 0 THEN FALSE
       ELSE IF Sgn(a) = 1 THEN MagLess(a, b)
       ELSE MagLess(b, a)
FloatEq(a, b) ==
    /\ ~IsNan(a) /\ ~IsNan(b)
    /\ Sgn(a) = Sgn(b)
    /\ (Sgn(a) # 0 => MagEq(a, b))

\* x < y, x == y and x <= y of Python on int and float operands
NumLess(x, y) == FloatLess(AsFloat(x), AsFloat(y))
NumEq(x, y) == FloatEq(AsFloat(x), AsFloat(y))
NumLe(x, y) == NumLess(x, y) \/ NumEq(x, y)

\* the first position of the one-character c in s, 0 when there is none
IndexOf(s, c) ==
    IF \E i \in 1..Len(s) : CharAt(s, i) = c
    THEN CHOOSE i \in 1..Len(s) : CharAt(s, i) = c /\ \A j \in 1..(i - 1) : CharAt(s, j) # c
    ELSE 0

\* re.fullmatch(r"-?\d+", s) is not None
IsSignedInt(s) ==
    IF Len(s) > 0 /\ CharAt(s, 1) = "-" THEN AllDigits(SubSeq(s, 2, Len(s))) ELSE AllDigits(s)

\* sys.int_info.default_max_str_digits: int() of a decimal numeral of more
\* digits raises ValueError (CPython 3.11, and the 3.7 to 3.10 security releases)
INT_MAX_STR_DIGITS == 4300

\* int(s) raises, for an s that IsSignedInt: the sign is not counted
IntRaises(s) ==
    Len(s) - (IF CharAt(s, 1) = "-" THEN 1 ELSE 0) > INT_MAX_STR_DIGITS

\* int(s) for an s that IsSignedInt and is short enough
ParseInt(s) ==
    IF CharAt(s, 1) = "-" THEN 0 - DigitsToNat(SubSeq(s, 2, Len(s))) ELSE DigitsToNat(s)

\* digitpart of float's grammar: digits, single underscores allowed between them
IsDigitPart(s) ==
    /\ Len(s) > 0
    /\ IsDigit(CharAt(s, 1))
    /\ IsDigit(CharAt(s, Len(s)))
    /\ \A i \in 1..Len(s) : IsDigit(CharAt(s, i)) \/ CharAt(s, i) = "_"
    /\ ~Contains(s, "__")

(* float(x), the grammar being
     [sign] (number [exponent] | "inf" | "infinity" | "nan")
   in any case, with whitespace around it ignored.  The operators below read
   it left to right; [ok |-> FALSE] stands for ValueError. *)
FloatError == [ok |-> FALSE, val |-> None]
FloatOk(v) == [ok |-> TRUE, val |-> v]

\* the digits are read: intTxt "." fracTxt, times ten to the expVal
FloatOfDigits(isNeg, intTxt, fracTxt, expVal) ==
    ToDouble(isNeg, DigitsToNat(RemoveChar(intTxt, "_") \o RemoveChar(fracTxt, "_")),
             expVal - Len(RemoveChar(fracTxt, "_")))

\* number: digitpart ["."] | [digitpart] "." digitpart
ParseNumber(isNeg, mantTxt, dot, expOk, expVal) ==
    IF dot = 0
    THEN IF IsDigitPart(mantTxt) /\ expOk
         THEN FloatOk(FloatOfDigits(isNeg, mantTxt, "", expVal))
         ELSE FloatError
    ELSE IF /\ dot = 1 \/ IsDigitPart(SubSeq(mantTxt, 1, dot - 1))
            /\ dot = Len(mantTxt) \/ IsDigitPart(SubSeq(mantTxt, dot + 1, Len(mantTxt)))
            /\ Len(mantTxt) > 1
            /\ expOk
         THEN FloatOk(FloatOfDigits(isNeg, SubSeq(mantTxt, 1, dot - 1),
                                    SubSeq(mantTxt, dot + 1, Len(mantTxt)), expVal))
         ELSE FloatError

\* exponent: [sign] digitpart, after the "e"
ParseExponent(isNeg, mantTxt, expTxt) ==
    IF Len(expTxt) > 0 /\ CharAt(expTxt, 1) = "-"
    THEN ParseNumber(isNeg, mantTxt, IndexOf(mantTxt, "."),
                     IsDigitPart(SubSeq(expTxt, 2, Len(expTxt))),
                     0 - DigitsToNat(RemoveChar(SubSeq(expTxt, 2, Len(expTxt)), "_")))
    ELSE IF Len(expTxt) > 0 /\ CharAt(expTxt, 1) = "+"
    THEN ParseNumber(isNeg, mantTxt, IndexOf(mantTxt, "."),
                     IsDigitPart(SubSeq(expTxt, 2, Len(expTxt))),
                     DigitsToNat(RemoveChar(SubSeq(expTxt, 2, Len(expTxt)), "_")))
    ELSE ParseNumber(isNeg, mantTxt, IndexOf(mantTxt, "."),
                     IsDigitPart(expTxt), DigitsToNat(RemoveChar(expTxt, "_")))

\* what follows the sign, lower-cased; ePos is where its first "e" is
ParseUnsigned(isNeg, body, ePos) ==
    IF body \in {"inf", "infinity"} THEN FloatOk(PyInf(isNeg))
    ELSE IF body = "nan" THEN FloatOk(PyNan)
    ELSE IF ePos = 0 THEN ParseNumber(isNeg, body, IndexOf(body, "."), TRUE, 0)
    ELSE ParseExponent(isNeg, SubSeq(body, 1, ePos - 1), SubSeq(body, ePos + 1, Len(body)))

ParseSigned(s0) ==
    IF Len(s0) > 0 /\ CharAt(s0, 1) \in {"+", "-"}
    THEN ParseUnsigned(CharAt(s0, 1) = "-", Lower(SubSeq(s0, 2, Len(s0))),
                       IndexOf(Lower(SubSeq(s0, 2, Len(s0))), "e"))
    ELSE ParseUnsigned(FALSE, Lower(s0), IndexOf(Lower(s0), "e"))

ParseFloat(x) == ParseSigned(Strip(x))

\* repr of a float: fixed notation for 1e-4 <= |v| < 1e16, else scientific
FloatRepr(v) ==
    LET sign == IF v.neg THEN "-" ELSE ""
        ds == ToString(v.n)
        nd == Len(ds)
        sci == nd + v.e - 1
        absSci == IF sci < 0 THEN 0 - sci ELSE sci
    IN  IF v.s = "nan" THEN "nan"
        ELSE IF v.s = "inf" THEN sign \o "inf"
        ELSE IF v.n = 0 THEN sign \o "0.0"
        ELSE IF sci >= -4 /\ sci < 16
             THEN IF v.e >= 0 THEN sign \o ds \o Zeros(v.e) \o ".0"
                  ELSE IF nd + v.e > 0
                       THEN sign \o SubSeq(ds, 1, nd + v.e) \o "." \o SubSeq(ds, nd + v.e + 1, nd)
                  ELSE sign \o "0." \o Zeros(0 - (nd + v.e)) \o ds
        ELSE sign \o CharAt(ds, 1) \o (IF nd > 1 THEN "." \o SubSeq(ds, 2, nd) ELSE "")
                  \o "e" \o (IF sci < 0 THEN "-" ELSE "+")
                  \o (IF absSci < 10 THEN "0" ELSE "") \o ToString(absSci)

\* format(v, ""), what an f-string writes for v
Format(v) ==
    IF v.t = "str" THEN v.s
    ELSE IF v.t = "int" THEN ToString(v.n)
    ELSE IF v.t = "float" THEN FloatRepr(v)
    ELSE "None"

RECURSIVE Join(_, _)
\* sep.join(xs)
Join(sep, xs) ==
    IF Len(xs) = 0 THEN ""
    ELSE IF Len(xs) = 1 THEN xs[1]
    ELSE xs[1] \o sep \o Join(sep, Tail(xs))

(***************************************************************************)
(* Personas and the persona detector                                       *)
(***************************************************************************)

PERSONAS == <<"cooperative", "evasive", "aggressive", "confused">>

TONE_MAP ==
    [p \in {PERSONAS[i] : i \in 1..Len(PERSONAS)} |->
        CASE p = "cooperative" -> "friendly and informative"
          [] p = "evasive" -> "polite but assertive"
          [] p = "aggressive" -> "calm and empathetic"
          [] p = "confused" -> "patient, clear, and supportive"]

\* a plausible slip: "no" is taken for a negative word
NEGATIVE_WORDS_WithNo ==
    {"terrible", "worst", "angry", "useless", "hate", "annoyed", "mad", "no"}

NEGATIVE_WORDS == {"terrible", "worst", "angry", "useless", "hate", "annoyed", "mad"}

\* the phrase of each pattern r"\b<phrase>\b"
EVADE_PATTERNS == <<"i don't know", "not sure", "later", "skip", "maybe">>

CONFUSED_CUES == <<"?", "what do you mean", "how", "help", "confused">>

\* \b at the gap before position p of s: a \w on exactly one side
WordBoundary(s, p) ==
    LET before == p > 1 /\ IsWordChar(CharAt(s, p - 1))
        after == p <= Len(s) /\ IsWordChar(CharAt(s, p))
    IN  before # after

\* re.search(r"\b" + phrase + r"\b", s) is not None
SearchWord(phrase, s) ==
    \E i \in 1..(Len(s) - Len(phrase) + 1) :
        /\ SubSeq(s, i, i + Len(phrase) - 1) = phrase
        /\ WordBoundary(s, i)
        /\ WordBoundary(s, i + Len(phrase))

HasAggressiveCue(txt) == (\E w \in NEGATIVE_WORDS : Contains(txt, w)) \/ Contains(txt, "!")
HasEvasiveCue(txt) == \E i \in 1..Len(EVADE_PATTERNS) : SearchWord(EVADE_PATTERNS[i], txt)
HasConfusedCue(txt) == \E i \in 1..Len(CONFUSED_CUES) : Contains(txt, CONFUSED_CUES[i])

\* a plausible slip: the confusion cues are looked for first
DetectIn_ConfusedFirst(txt) ==
    IF HasConfusedCue(txt) THEN "confused"
    ELSE IF HasAggressiveCue(txt) THEN "aggressive"
    ELSE IF HasEvasiveCue(txt) THEN "evasive"
    ELSE "cooperative"

\* detect_persona, after txt = user_text.lower().strip()
DetectIn(txt) ==
    IF HasAggressiveCue(txt) THEN "aggressive"
    ELSE IF HasEvasiveCue(txt) THEN "evasive"
    ELSE IF HasConfusedCue(txt) THEN "confused"
    ELSE "cooperative"

detect_persona(user_text) == DetectIn(Strip(Lower(user_text)))

(***************************************************************************)
(* Validators: each returns the tuple (ok, value, err) as a record          *)
(***************************************************************************)

\* raised is "" when the validator returned, and else names the exception that
\* left it
Outcome(isOk, v, msg) == [ok |-> isOk, value |-> v, err |-> msg, raised |-> ""]

Raise(exc) == [ok |-> FALSE, value |-> None, err |-> "", raised |-> exc]

\* int_in_range, after x = x.strip()
IntInRange(min_v, max_v, x) ==
    IF ~IsSignedInt(x)
    THEN Outcome(FALSE, None, "Please enter a whole number between " \o Format(min_v)
                              \o " and " \o Format(max_v) \o ".")
    ELSE IF IntRaises(x) THEN Raise("ValueError")
    ELSE IF ~(NumLe(min_v, PyInt(ParseInt(x))) /\ NumLe(PyInt(ParseInt(x)), max_v))
         THEN Outcome(FALSE, None, "Value must be between " \o Format(min_v)
                                   \o " and " \o Format(max_v) \o ".")
    ELSE Outcome(TRUE, PyInt(ParseInt(x)), "")

int_in_range(min_v, max_v, x) == IntInRange(min_v, max_v, Strip(x))

\* float_in_range, after val = float(x) was tried
FloatInRange(min_v, max_v, parsed) ==
    IF ~parsed.ok
    THEN Outcome(FALSE, None, "Please enter a number between " \o Format(min_v)
                              \o " and " \o Format(max_v) \o ".")
    ELSE IF ~(NumLe(min_v, parsed.val) /\ NumLe(parsed.val, max_v))
         THEN Outcome(FALSE, None, "Value must be between " \o Format(min_v)
                                   \o " and " \o Format(max_v) \o ".")
    ELSE Outcome(TRUE, parsed.val, "")

float_in_range(min_v, max_v, x) ==
    FloatInRange(min_v, max_v, ParseFloat(RemoveChar(Strip(x), ",")))

\* positive_float, after val = float(x) was tried
PositiveFloat(parsed) ==
    IF ~parsed.ok THEN Outcome(FALSE, None, "Please enter a positive number.")
    ELSE IF NumLe(parsed.val, PyInt(0)) THEN Outcome(FALSE, None, "Value must be > 0.")
    ELSE Outcome(TRUE, parsed.val, "")

positive_float(x) == PositiveFloat(ParseFloat(RemoveChar(Strip(x), ",")))

\* lower_opts.index(low): the first position holding low
FirstIndex(xs, x) == CHOOSE i \in 1..Len(xs) : xs[i] = x /\ \A j \in 1..(i - 1) : xs[j] # x

\* one_of, with lower_opts built and s = x.strip() lower-cased
OneOf(options, lower_opts, low) ==
    IF ~(\E i \in 1..Len(lower_opts) : lower_opts[i] = low)
    THEN Outcome(FALSE, None, "Please choose one of: " \o Join(", ", options) \o ".")
    ELSE Outcome(TRUE, PyStr(options[FirstIndex(lower_opts, low)]), "")

\* a plausible slip: the text typed is returned in place of the option
one_of_UserCasing(options, x) ==
    IF \E i \in 1..Len(options) : Lower(options[i]) = Lower(Strip(x))
    THEN Outcome(TRUE, PyStr(Strip(x)), "")
    ELSE Outcome(FALSE, None, "Please choose one of: " \o Join(", ", options) \o ".")

one_of(options, x) ==
    OneOf(options, [i \in 1..Len(options) |-> Lower(options[i])], Lower(Strip(x)))

\* re.fullmatch(r"[A-Za-z]\w{2,15}", t) is not None
MatchesCustomerID(t) ==
    /\ Len(t) >= 3
    /\ Len(t) <= 16
    /\ IsLetter(CharAt(t, 1))
    /\ \A i \in 2..Len(t) : IsWordChar(CharAt(t, i))

\* the lambda of the CustomerID field: value and message are returned either way
customer_id(x) ==
    Outcome(MatchesCustomerID(Strip(x)), PyStr(Strip(x)),
            "ID should start with a letter and be 3-16 chars.")

(***************************************************************************)
(* The field schema                                                        *)
(***************************************************************************)

\* dict.get(key, default) on the answers, a sequence of [k, v] in insertion order
DictHas(d, key) == \E i \in 1..Len(d) : d[i].k = key
DictGet(d, key, default) ==
    IF DictHas(d, key) THEN d[CHOOSE i \in 1..Len(d) : d[i].k = key].v ELSE default
\* a plausible slip: the new entry is put first
DictSet_Front(d, key, value) == <<[k |-> key, v |-> value]>> \o d

\* d[key] = value: a present key keeps its place, a new key goes last
DictSet(d, key, value) ==
    IF DictHas(d, key)
    THEN [i \in 1..Len(d) |-> IF d[i].k = key THEN [k |-> key, v |-> value] ELSE d[i]]
    ELSE Append(d, [k |-> key, v |-> value])
DictKeys(d) == [i \in 1..Len(d) |-> d[i].k]

income_optional_if_unemployed_or_student(state) ==
    Lower(DictGet(state, "EmploymentStatus", PyStr("")).s) \notin {"unemployed", "student"}

\* a plausible slip: >= for >
partial_payments_if_missed_NotStrict(state) ==
    NumLe(PyInt(0), DictGet(state, "MissedPayments", PyInt(0)))

partial_payments_if_missed(state) ==
    NumLess(PyInt(0), DictGet(state, "MissedPayments", PyInt(0)))

\* the float literal x.tenths of the source
FloatLit(x, tenths) == ToDouble(x < 0, (IF x < 0 THEN 0 - x ELSE x) * 10 + tenths, -1)

FieldSpec(fname, fprompt, kind, lo, hi, opts, dep) ==
    [name |-> fname, prompt |-> fprompt, validator |-> kind, min_v |-> lo, max_v |-> hi,
     options |-> opts, required |-> TRUE, depends_on |-> dep]

IntField(fname, fprompt, lo, hi) ==
    FieldSpec(fname, fprompt, "int_in_range", PyInt(lo), PyInt(hi), <<>>, "None")
FloatField(fname, fprompt, lo, hi) ==
    FieldSpec(fname, fprompt, "float_in_range", lo, hi, <<>>, "None")
ChoiceField(fname, fprompt, opts) ==
    FieldSpec(fname, fprompt, "one_of", None, None, opts, "None")

SCHEMA == <<
    FieldSpec("CustomerID", "Enter a unique Customer ID (e.g., C12345):",
              "customer_id", None, None, <<>>, "None"),
    IntField("Age", "Please enter your age (18-75):", 18, 75),
    FieldSpec("Income", "Annual income in INR (e.g., 450000):",
              "positive_float", None, None, <<>>, "income_optional_if_unemployed_or_student"),
    ChoiceField("Location", "Your location (Urban/Suburban/Rural):",
                <<"Urban", "Suburban", "Rural">>),
    ChoiceField("EmploymentStatus",
                "Employment status (Self-Employed/Salaried/Student/Unemployed):",
                <<"Self-Employed", "Salaried", "Student", "Unemployed">>),
    FieldSpec("LoanAmount", "Requested loan amount in INR (must be > 0):",
              "positive_float", None, None, <<>>, "None"),
    IntField("TenureMonths", "Loan tenure in months (6-360):", 6, 360),
    FloatField("InterestRate", "Annual interest rate in % (1-30):", FloatLit(1, 0), FloatLit(30, 0)),
    ChoiceField("LoanType", "Type of loan (Personal/Auto/Home/Education/Business):",
                <<"Personal", "Auto", "Home", "Education", "Business">>),
    IntField("MissedPayments", "Number of missed payments (0-24):", 0, 24),
    IntField("DelaysDays", "Total delay in days (0-365):", 0, 365),
    FieldSpec("PartialPayments", "Number of partial payments (0-24):",
              "int_in_range", PyInt(0), PyInt(24), <<>>, "partial_payments_if_missed"),
    IntField("InteractionAttempts", "Number of contact attempts made (0-50):", 0, 50),
    FloatField("SentimentScore", "Sentiment score from -1 to 1 (e.g., -0.3, 0.7):",
               FloatLit(-1, 0), FloatLit(1, 0)),
    FloatField("ResponseTimeHours", "Average response time in hours (0-240):",
               FloatLit(0, 0), FloatLit(240, 0)),
    FloatField("AppUsageFrequency", "App usage frequency score (0-100):", FloatLit(0, 0), FloatLit(100, 0)),
    IntField("WebsiteVisits", "Number of visits to the loan portal (0-500):", 0, 500),
    IntField("Complaints", "Number of complaints registered (0-50):", 0, 50),
    ChoiceField("Target", "Will you likely miss the next payment? (Yes/No):", <<"Yes", "No">>)
>>

\* field.validator(x)
Validate(f, x) ==
    CASE f.validator = "customer_id" -> customer_id(x)
      [] f.validator = "int_in_range" -> int_in_range(f.min_v, f.max_v, x)
      [] f.validator = "float_in_range" -> float_in_range(f.min_v, f.max_v, x)
      [] f.validator = "positive_float" -> positive_float(x)
      [] f.validator = "one_of" -> one_of(f.options, x)

\* the keys of state a depends_on predicate reads, with state.get
Reads(dep) ==
    CASE dep = "income_optional_if_unemployed_or_student" -> {"EmploymentStatus"}
      [] dep = "partial_payments_if_missed" -> {"MissedPayments"}
      [] OTHER -> {}

\* field.depends_on(state)
DependsOn(f, state) ==
    CASE f.depends_on = "income_optional_if_unemployed_or_student" ->
            income_optional_if_unemployed_or_student(state)
      [] f.depends_on = "partial_payments_if_missed" -> partial_payments_if_missed(state)

\* a plausible slip: the predicate is never consulted
should_ask_Always(f, state) == TRUE

should_ask(f, state) ==
    IF f.depends_on = "None" THEN TRUE ELSE DependsOn(f, state)

(***************************************************************************)
(* Tone styling                                                            *)
(***************************************************************************)

style_prompt(text, persona) ==
    IF persona = "aggressive" THEN "I'm here to help. " \o text
    ELSE IF persona = "evasive" THEN "To proceed, " \o text
    ELSE IF persona = "confused" THEN "No worries -- I'll guide you. " \o text
    ELSE "Thanks! " \o text

style_error(msg, persona) ==
    IF persona = "aggressive" THEN "I get your concern. " \o msg
    ELSE IF persona = "evasive" THEN "Let's keep this moving. " \o msg
    ELSE IF persona = "confused" THEN "All good -- quick clarification: " \o msg
    ELSE msg

(***************************************************************************)
(* The optional rewriter.  What the external service does with one request *)
(* is a reply: "unavailable" (the client cannot be imported or built, no   *)
(* request leaves), "error" (the request raises: transport, timeout),      *)
(* "malformed" (a response without choices or with no content, so reading  *)
(* it raises) or "content" (a response whose message content is a string). *)
(***************************************************************************)

Reply(k, c) == [kind |-> k, content |-> c]

RewriterReplies ==
    {Reply("unavailable", ""), Reply("error", ""), Reply("malformed", ""),
     Reply("content", ""), Reply("content", " Kindly answer. ")}

\* a plausible slip: the service is asked whether or not the key is set
maybe_llm_rewrite_IgnoresFlag(text, persona, role, use_llm, reply) ==
    IF reply.kind = "content" THEN Strip(reply.content) ELSE text

maybe_llm_rewrite(text, persona, role, use_llm, reply) ==
    IF ~use_llm THEN text
    ELSE IF reply.kind = "content" THEN Strip(reply.content)
    ELSE text

\* the requests one call of maybe_llm_rewrite sends to the service
RequestsSent(use_llm, reply) ==
    IF use_llm /\ reply.kind # "unavailable" THEN 1 ELSE 0

ROLES == {"question", "clarification", "acknowledgement"}

(***************************************************************************)
(* Inputs of the model                                                     *)
(***************************************************************************)

\* the most consecutive rejections the user is let to cause at one field
MaxRetries == 2

\* lines a user may type at any prompt: none is a valid answer to a numeric or
\* a choice field, and they carry the cues of the four personas
AnyField == {"", "what?", "not sure", "no way!"}

\* lines a user may type at the prompt of one field
ForField(fname) ==
    CASE fname = "CustomerID" -> {"C001", " C001 ", "help", "later", "mad_max", "9lives", "ab"}
      [] fname = "Age" -> {"30", "18", "75", "17", "76", "18.5"}
      [] fname = "Income" -> {"400000", "4,00,000", "0", "-5"}
      [] fname = "Location" -> {"Urban", "urban", " URBAN ", "Town"}
      [] fname = "EmploymentStatus" -> {"Salaried", "student", "UNEMPLOYED", "retired"}
      [] fname = "LoanAmount" -> {"50000", "0", "abc"}
      [] fname = "TenureMonths" -> {"24", "5", "361"}
      [] fname = "InterestRate" -> {"10.5", "0.5", "31"}
      [] fname = "LoanType" -> {"Personal", "personal", "Car"}
      [] fname = "MissedPayments" -> {"0", "24", "-1", "25", "2.5"}
      [] fname = "DelaysDays" -> {"0", "366"}
      [] fname = "PartialPayments" -> {"0", "24", "25"}
      [] fname = "InteractionAttempts" -> {"5", "51"}
      [] fname = "SentimentScore" -> {"0.2", "-1.5", "1.1"}
      [] fname = "ResponseTimeHours" -> {"12", "241"}
      [] fname = "AppUsageFrequency" -> {"40", "101"}
      [] fname = "WebsiteVisits" -> {"20", "501"}
      [] fname = "Complaints" -> {"1", "51"}
      [] fname = "Target" -> {"No", "yes", "maybe"}

\* a numeral of one digit more than int() takes
Overlong == Repeat("7", INT_MAX_STR_DIGITS + 1)

Typed(i) ==
    AnyField \cup ForField(SCHEMA[i].name)
        \cup (IF SCHEMA[i].validator = "int_in_range" THEN {Overlong} ELSE {})

\* the 18 lines of the end-to-end scenario, in order
Scenario ==
    <<"C001", "30", "400000", "Urban", "Salaried", "50000", "24", "10.5", "Personal",
      "0", "0", "5", "0.2", "12", "40", "20", "1", "No">>

(***************************************************************************)
(* State                                                                   *)
(***************************************************************************)

VARIABLES
    USE_LLM,    \* the module constant set from the environment at import
    pc,         \* where control is: "start", "loop" (head of main's for), "input"
                \* (blocked in input() of ask_field), "done", "eof", "raised"
                \* (an exception left main); "call" and "returned" for a
                \* function called on its own
    idx,        \* main: the position in SCHEMA of the for loop (1-based)
    state,      \* main: the answers, [k, v] records in insertion order
    persona,    \* main: persona
    prompt,     \* ask_field: prompt
    tries,      \* rejections at the current field so far
    out,        \* the texts the latest step wrote to the console, in order
    read,       \* the lines the latest step read from the console
    requests,   \* the requests the latest step sent to the rewriting service
    script,     \* how many lines were read while every line read was the next
                \* line of Scenario; -1 once a line read was another one
    call,       \* a function called on its own: the function and its arguments
    ret         \* what that call returned

vars == <<USE_LLM, pc, idx, state, persona, prompt, tries, out, read, requests, script, call, ret>>

NoCall == [fn |-> "", field |-> 0, text |-> "", persona |-> "", role |-> "", reply |-> Reply("unavailable", "")]

NFields == Len(SCHEMA)

(***************************************************************************)
(* Functions called on their own, as a test or an importing module does    *)
(***************************************************************************)

IntFields == {i \in 1..NFields : SCHEMA[i].validator = "int_in_range"}

\* the bounds of the integer fields, and the integers next to them
BoundaryLines ==
    UNION {{ToString(SCHEMA[i].min_v.n - 1), ToString(SCHEMA[i].min_v.n),
            ToString(SCHEMA[i].max_v.n), ToString(SCHEMA[i].max_v.n + 1)} : i \in IntFields}

\* further lines: cues of several personas at once, cues inside longer words,
\* and the numerals float() takes beyond plain decimals
OtherLines ==
    {"I hate this?", "maybe later!", "not sure, help", "i don't know how", "HELP", "how",
     "skipper", "nomad", "Later.", "suburban", "SELF-EMPLOYED", "Yes", "nO",
     "+7", "007", "- 7", "1e1", "1E-1", ".5", "5.", "1_0", "inf", "-Infinity", "nan",
     "-0", "1e999", "1e-999", "1,0", "e5", "1.2.3"}

UnitLines ==
    AnyField \cup UNION {ForField(SCHEMA[i].name) : i \in 1..NFields}
        \cup BoundaryLines \cup OtherLines

PersonaSet == {PERSONAS[i] : i \in 1..Len(PERSONAS)}

\* texts handed to the stylers and to the rewriter
UnitTexts ==
    {SCHEMA[i].prompt : i \in 1..NFields} \cup {"Value must be > 0.", ""}

Call(f, i, txt, p, r, rep) ==
    [fn |-> f, field |-> i, text |-> txt, persona |-> p, role |-> r, reply |-> rep]

Calls ==
    {Call("validator", i, l, "", "", Reply("unavailable", "")) : i \in 1..NFields, l \in UnitLines}
    \cup {Call("validator", i, Overlong, "", "", Reply("unavailable", "")) : i \in IntFields}
    \cup {Call("detect_persona", 0, l, "", "", Reply("unavailable", "")) : l \in UnitLines}
    \cup {Call(f, 0, t, p, "", Reply("unavailable", "")) :
            f \in {"style_prompt", "style_error"}, t \in UnitTexts, p \in PersonaSet \cup {"neutral"}}
    \cup {Call("maybe_llm_rewrite", 0, t, p, r, rep) :
            t \in {"Thanks! " \o SCHEMA[2].prompt, "Value must be > 0."},
            p \in PersonaSet, r \in ROLES, rep \in RewriterReplies}

(***************************************************************************)
(* Initial states: the module is imported; either main() is about to run   *)
(* or one of the functions is about to be called.                          *)
(***************************************************************************)

Init ==
    /\ USE_LLM \in BOOLEAN
    /\ \/ pc = "start" /\ call = NoCall
       \/ pc = "call" /\ call \in Calls
    /\ idx = 1
    /\ state = <<>>
    /\ persona = "cooperative"
    /\ prompt = ""
    /\ tries = 0
    /\ out = <<>>
    /\ read = <<>>
    /\ requests = 0
    /\ script = 0
    /\ ret = None

(***************************************************************************)
(* main() and ask_field()                                                  *)
(***************************************************************************)

\* input(p): the prompt is written, then a line is awaited
InputPrompt(p) == p \o "\n> "

\* the scenario tracker after reading line
Tracked(line) ==
    IF script >= 0 /\ script < Len(Scenario) /\ line = Scenario[script + 1]
    THEN script + 1
    ELSE -1

AckNote == "Noted. We'll consider a supportive repayment plan."

\* main, lines 209-213: the banner and the initial state
Welcome ==
    /\ pc = "start"
    /\ pc' = "loop"
    /\ idx' = 1
    /\ state' = <<>>
    /\ persona' = "cooperative"
    /\ out' = <<"Welcome to the Persona-Aware Loan Intake Bot.",
                "I'll ask a few questions to complete your application.\n">>
    /\ read' = <<>>
    /\ requests' = 0
    /\ UNCHANGED <<USE_LLM, prompt, tries, script, call, ret>>

\* a plausible slip: a field passed over is recorded, with no value
Skip_RecordsNone ==
    /\ pc = "loop"
    /\ idx <= NFields
    /\ ~should_ask(SCHEMA[idx], state)
    /\ idx' = idx + 1
    /\ state' = DictSet(state, SCHEMA[idx].name, None)
    /\ out' = <<>>
    /\ read' = <<>>
    /\ requests' = 0
    /\ UNCHANGED <<USE_LLM, pc, persona, prompt, tries, script, call, ret>>

\* main, lines 215-217: a field whose depends_on says no is passed over
Skip ==
    /\ pc = "loop"
    /\ idx <= NFields
    /\ ~should_ask(SCHEMA[idx], state)
    /\ idx' = idx + 1
    /\ out' = <<>>
    /\ read' = <<>>
    /\ requests' = 0
    /\ UNCHANGED <<USE_LLM, pc, state, persona, prompt, tries, script, call, ret>>

\* main line 218 into ask_field, lines 195-198: the prompt is styled once, with
\* main's persona, and input() writes it
Ask ==
    /\ pc = "loop"
    /\ idx <= NFields
    /\ should_ask(SCHEMA[idx], state)
    /\ \E reply \in RewriterReplies :
        /\ prompt' = maybe_llm_rewrite(style_prompt(SCHEMA[idx].prompt, persona),
                                       persona, "question", USE_LLM, reply)
        /\ requests' = RequestsSent(USE_LLM, reply)
    /\ out' = <<InputPrompt(prompt')>>
    /\ read' = <<>>
    /\ tries' = 0
    /\ pc' = "input"
    /\ UNCHANGED <<USE_LLM, idx, state, persona, script, call, ret>>

\* a plausible slip: the validator is handed the text as styled for the persona
Turn_ValidatesStyled(i, line) ==
    [line |-> line,
     turn_persona |-> detect_persona(Strip(line)),
     res |-> Validate(SCHEMA[i], style_error(Strip(line), detect_persona(Strip(line))))]

\* ask_field, lines 198-201: what one turn at field i makes of the line typed
Turn(i, line) ==
    [line |-> line,
     turn_persona |-> detect_persona(Strip(line)),
     res |-> Validate(SCHEMA[i], Strip(line))]

\* the lines the user can type at field i: the lines of the field, and the next
\* line of the scenario while the scenario is being followed
ScriptLine ==
    IF script >= 0 /\ script < Len(Scenario) THEN {Scenario[script + 1]} ELSE {}
ScenarioLines == {Scenario[k] : k \in 1..Len(Scenario)}

\* Turn for every field and every line that can be typed at it
Turns == [i \in 1..NFields |-> [line \in Typed(i) \cup ScenarioLines |-> Turn(i, line)]]

\* the turns the user can take at field i
TurnsAt(i) == {Turns[i][line] : line \in Typed(i) \cup ScriptLine}

\* a plausible slip: >= for >
Acknowledged_NotStrict(fname, value) == fname = "MissedPayments" /\ NumLe(PyInt(0), value)

\* main, lines 222-224: the note after MissedPayments > 0
Acknowledged(fname, value) == fname = "MissedPayments" /\ NumLess(PyInt(0), value)

\* ask_field, lines 198-203, and main, lines 218-224: the line is valid
Accept ==
    /\ pc = "input"
    /\ \E turn \in TurnsAt(idx) :
        /\ turn.res.ok
        /\ state' = DictSet(state, SCHEMA[idx].name, turn.res.value)
        /\ persona' = turn.turn_persona
        /\ IF Acknowledged(SCHEMA[idx].name, turn.res.value)
           THEN \E reply \in RewriterReplies :
                  /\ out' = <<maybe_llm_rewrite(style_prompt(AckNote, turn.turn_persona),
                                                turn.turn_persona, "acknowledgement",
                                                USE_LLM, reply)>>
                  /\ requests' = RequestsSent(USE_LLM, reply)
           ELSE out' = <<>> /\ requests' = 0
        /\ read' = <<turn.line>>
        /\ script' = Tracked(turn.line)
    /\ idx' = idx + 1
    /\ prompt' = ""
    /\ tries' = 0
    /\ pc' = "loop"
    /\ UNCHANGED <<USE_LLM, call, ret>>

\* a plausible slip: a rejected line is taken for an answer and the loop moves on
Reject_MovesOn ==
    /\ pc = "input"
    /\ tries < MaxRetries
    /\ \E turn \in TurnsAt(idx) :
        /\ ~turn.res.ok
        /\ turn.res.raised = ""
        /\ \E reply \in RewriterReplies :
              /\ out' = <<maybe_llm_rewrite(style_error(turn.res.err, turn.turn_persona),
                                            turn.turn_persona, "clarification", USE_LLM, reply)>>
              /\ requests' = RequestsSent(USE_LLM, reply)
        /\ read' = <<turn.line>>
        /\ script' = Tracked(turn.line)
    /\ idx' = idx + 1
    /\ prompt' = ""
    /\ tries' = 0
    /\ pc' = "loop"
    /\ UNCHANGED <<USE_LLM, state, persona, call, ret>>

\* ask_field, lines 198-206 and back to 198: the line is not valid
Reject ==
    /\ pc = "input"
    /\ tries < MaxRetries
    /\ \E turn \in TurnsAt(idx) :
        /\ ~turn.res.ok
        /\ turn.res.raised = ""
        /\ \E reply \in RewriterReplies :
              /\ out' = <<maybe_llm_rewrite(style_error(turn.res.err, turn.turn_persona),
                                            turn.turn_persona, "clarification", USE_LLM, reply),
                          InputPrompt(prompt)>>
              /\ requests' = RequestsSent(USE_LLM, reply)
        /\ read' = <<turn.line>>
        /\ script' = Tracked(turn.line)
    /\ tries' = tries + 1
    /\ UNCHANGED <<USE_LLM, pc, idx, state, persona, prompt, call, ret>>

\* ask_field, line 200: the validator raises; nothing catches it and the run
\* ends there, with a traceback on stderr
Abort ==
    /\ pc = "input"
    /\ \E turn \in TurnsAt(idx) :
        /\ turn.res.raised # ""
        /\ read' = <<turn.line>>
        /\ script' = Tracked(turn.line)
    /\ pc' = "raised"
    /\ out' = <<>>
    /\ requests' = 0
    /\ UNCHANGED <<USE_LLM, idx, state, persona, prompt, tries, call, ret>>

\* input() raises EOFError: nothing catches it and the run ends there
EndOfInput ==
    /\ pc = "input"
    /\ pc' = "eof"
    /\ out' = <<>>
    /\ read' = <<>>
    /\ requests' = 0
    /\ UNCHANGED <<USE_LLM, idx, state, persona, prompt, tries, script, call, ret>>

\* a plausible slip: the answers are listed last first
SummaryLines_Reversed(d) ==
    [i \in 1..Len(d) |-> " - " \o d[Len(d) + 1 - i].k \o ": " \o Format(d[Len(d) + 1 - i].v)]

\* the lines of the summary, one for each answer in insertion order
SummaryLines(d) == [i \in 1..Len(d) |-> " - " \o d[i].k \o ": " \o Format(d[i].v)]

\* main, lines 226-231: the loop is over
Complete ==
    /\ pc = "loop"
    /\ idx > NFields
    /\ pc' = "done"
    /\ out' = <<"\nThanks! Here is the information you provided:">>
              \o SummaryLines(state)
              \o <<"\nIf anything looks off, you can rerun me to update your details.",
                   "Goodbye!">>
    /\ read' = <<>>
    /\ requests' = 0
    /\ UNCHANGED <<USE_LLM, idx, state, persona, prompt, tries, script, call, ret>>

(***************************************************************************)
(* One function called on its own                                          *)
(***************************************************************************)

CallValidator ==
    /\ pc = "call"
    /\ call.fn = "validator"
    /\ ret' = Validate(SCHEMA[call.field], call.text)
    /\ pc' = "returned"
    /\ UNCHANGED <<USE_LLM, call, requests>>
    /\ UNCHANGED <<idx, state, persona, prompt, tries, out, read, script>>

CallDetectPersona ==
    /\ pc = "call"
    /\ call.fn = "detect_persona"
    /\ ret' = PyStr(detect_persona(call.text))
    /\ pc' = "returned"
    /\ UNCHANGED <<USE_LLM, call, requests>>
    /\ UNCHANGED <<idx, state, persona, prompt, tries, out, read, script>>

CallStylePrompt ==
    /\ pc = "call"
    /\ call.fn = "style_prompt"
    /\ ret' = PyStr(style_prompt(call.text, call.persona))
    /\ pc' = "returned"
    /\ UNCHANGED <<USE_LLM, call, requests>>
    /\ UNCHANGED <<idx, state, persona, prompt, tries, out, read, script>>

CallStyleError ==
    /\ pc = "call"
    /\ call.fn = "style_error"
    /\ ret' = PyStr(style_error(call.text, call.persona))
    /\ pc' = "returned"
    /\ UNCHANGED <<USE_LLM, call, requests>>
    /\ UNCHANGED <<idx, state, persona, prompt, tries, out, read, script>>

CallRewrite ==
    /\ pc = "call"
    /\ call.fn = "maybe_llm_rewrite"
    /\ ret' = PyStr(maybe_llm_rewrite(call.text, call.persona, call.role, USE_LLM, call.reply))
    /\ requests' = RequestsSent(USE_LLM, call.reply)
    /\ pc' = "returned"
    /\ UNCHANGED <<USE_LLM, call>>
    /\ UNCHANGED <<idx, state, persona, prompt, tries, out, read, script>>

Next ==
    \/ Welcome
    \/ Skip
    \/ Ask
    \/ Accept
    \/ Reject
    \/ Abort
    \/ EndOfInput
    \/ Complete
    \/ CallValidator
    \/ CallDetectPersona
    \/ CallStylePrompt
    \/ CallStyleError
    \/ CallRewrite

Spec == Init /\ [][Next]_vars

\* main() with a user who answers every prompt: the input never ends, no line
\* typed makes a validator raise, and a line the validator accepts is typed in
\* the end
LiveNext ==
    \/ Welcome
    \/ Skip
    \/ Ask
    \/ Accept
    \/ Reject
    \/ Complete

\* the interpreter goes on running main(); the user goes on to a valid answer
Fairness ==
    /\ WF_vars(Welcome)
    /\ WF_vars(Skip)
    /\ WF_vars(Ask)
    /\ WF_vars(Accept)
    /\ WF_vars(Complete)

\* main() is about to run
LiveInit == Init /\ pc = "start"

LiveSpec == LiveInit /\ [][LiveNext]_vars /\ Fairness

(***************************************************************************)
(* Properties                                                              *)
(***************************************************************************)

\* main() is running or has run
InMain == pc \in {"loop", "input", "eof", "raised", "done"}

\* the position of a field in SCHEMA
FieldIndex(fname) == CHOOSE i \in 1..NFields : SCHEMA[i].name = fname

\* the answer committed for a field, None when there is none
Answer(fname) == DictGet(state, fname, None)

MissedIsPositive ==
    DictHas(state, "MissedPayments") /\ NumLess(PyInt(0), Answer("MissedPayments"))

\* C1: in a run that reached Complete, "Income" is a key of the answers if and
\* only if the EmploymentStatus committed is neither "Unemployed" nor "Student",
\* compared case-insensitively.
C1_IncomeIffEmployed ==
    pc = "done" =>
        (DictHas(state, "Income")
            <=> Lower(Answer("EmploymentStatus").s) \notin {"unemployed", "student"})

\* C2: once the loop is past PartialPayments, "PartialPayments" is a key of the
\* answers if and only if the MissedPayments committed is greater than 0; the
\* PartialPayments prompt is awaited only when MissedPayments is greater than 0,
\* and the step that passes the field over reads no line and writes nothing.
C2_PartialIffMissed ==
    /\ (InMain /\ idx > FieldIndex("PartialPayments"))
          => (DictHas(state, "PartialPayments") <=> MissedIsPositive)
    /\ (InMain /\ idx <= FieldIndex("PartialPayments")) => ~DictHas(state, "PartialPayments")
    /\ (pc \in {"input", "eof"} /\ idx = FieldIndex("PartialPayments")) => MissedIsPositive
    /\ (pc = "loop" /\ idx = FieldIndex("PartialPayments") + 1 /\ ~MissedIsPositive)
          => (read = <<>> /\ out = <<>>)

\* C2 witness: a complete run with MissedPayments 0 and no PartialPayments
C2_Witness ==
    /\ pc = "done"
    /\ Answer("MissedPayments") = PyInt(0)
    /\ ~DictHas(state, "PartialPayments")

\* the texts maybe_llm_rewrite can return for a text
Rewritten(text, p, role) ==
    {maybe_llm_rewrite(text, p, role, USE_LLM, reply) : reply \in RewriterReplies}

\* a step that read a line at the prompt of field idx, with what the code makes of it
RejectedStep(turn) ==
    /\ state' = state
    /\ idx' = idx
    /\ pc' = "input"
    /\ persona' = persona
    /\ prompt' = prompt
    /\ tries' = tries + 1
    /\ Len(out') = 2
    /\ out'[1] \in Rewritten(style_error(turn.res.err, turn.turn_persona),
                             turn.turn_persona, "clarification")
    /\ out'[2] = InputPrompt(prompt)
AcceptedStep(turn) ==
    /\ ~DictHas(state, SCHEMA[idx].name)
    /\ state' = Append(state, [k |-> SCHEMA[idx].name, v |-> turn.res.value])
    /\ idx' = idx + 1
    /\ pc' = "loop"

\* C3: a line the validator of field idx rejects makes the engine write one
\* styled error, leave the answers as they are, stay at the field and write the
\* field's prompt again, however many rejections came before; a line the
\* validator accepts is the value committed for the field.
C3_RejectionLoop ==
    [][(pc = "input" /\ read' # <<>>)
          => IF Turns[idx][read'[1]].res.ok
             THEN AcceptedStep(Turns[idx][read'[1]])
             ELSE Turns[idx][read'[1]].res.raised = ""
                      => RejectedStep(Turns[idx][read'[1]])]_vars

\* C3 witness: Age, "17" typed as the second rejected line in a row (with no
\* rewriter), the bounds message written and the prompt written again
C3_Witness ==
    /\ pc = "input"
    /\ SCHEMA[idx].name = "Age"
    /\ read = <<"17">>
    /\ tries = 2
    /\ ~USE_LLM
    /\ out = <<"Value must be between 18 and 75.", InputPrompt(prompt)>>
    /\ ~DictHas(state, "Age")

\* C4: while the lines read are the lines of the scenario, in order, each line
\* read was accepted; when all 18 are read the loop is over, no line is awaited,
\* and the answers are 18, with CustomerID "C001", Location "Urban",
\* MissedPayments 0 and no PartialPayments.
C4_Scenario ==
    /\ script >= 0 => Len(state) = script
    /\ script = Len(Scenario) =>
          /\ pc \in {"loop", "done"}
          /\ idx = NFields + 1
          /\ Len(state) = 18
          /\ Answer("CustomerID") = PyStr("C001")
          /\ Answer("Location") = PyStr("Urban")
          /\ Answer("MissedPayments") = PyInt(0)
          /\ ~DictHas(state, "PartialPayments")

\* C4 witness: the scenario was read to its last line and the run is complete
C4_Witness == script = Len(Scenario) /\ pc = "done" /\ Len(out) = 18 + 3

\* the answers are in the order of the schema, each field at most once
InSchemaOrder ==
    \A j \in 1..Len(state) : \A k \in (j + 1)..Len(state) :
        FieldIndex(state[j].k) < FieldIndex(state[k].k)

\* what Complete has written: a heading, one line for each answer in the order
\* committed, and two closing lines
SummaryWritten ==
    /\ Len(out) = Len(state) + 3
    /\ out[1] = "\nThanks! Here is the information you provided:"
    /\ \A j \in 1..Len(state) :
          out[j + 1] = " - " \o state[j].k \o ": " \o Format(state[j].v)

\* C5: with a user who goes on to type a line the validator accepts at every
\* prompt, main() reaches Complete; at Complete the loop has passed every field,
\* every field with no depends_on has an answer, PartialPayments is missing
\* only if it was passed over, and the summary lists the answers, each once, in
\* the order committed.
C5_ReachesComplete ==
    /\ (pc = "start") ~> (pc = "done")
    /\ [](pc = "done" =>
            /\ idx = NFields + 1
            /\ \A i \in 1..NFields :
                  SCHEMA[i].depends_on = "None" => DictHas(state, SCHEMA[i].name)
            /\ ~DictHas(state, "PartialPayments") => ~MissedIsPositive
            /\ \A j \in 1..Len(state) : \E i \in 1..NFields : state[j].k = SCHEMA[i].name
            /\ InSchemaOrder
            /\ SummaryWritten)

\* C5 witness: Complete after rejections on the way, with all 19 answers listed
C5_Witness ==
    /\ pc = "done"
    /\ Len(state) = NFields
    /\ out[NFields + 1] = " - Target: Yes"
    /\ script = -1

IntRange(f) == f.min_v.n..f.max_v.n

\* the integer a numeral spells lies within the bounds of field f
SpellsInRange(f, numeral) ==
    ~IntRaises(numeral) /\ ParseInt(numeral) \in IntRange(f)

\* C6: an answer committed for an integer-range field is an integer within the
\* bounds of the field; int_in_range, called with the numeral of an integer k
\* from min-1 to max+1, accepts it exactly when min <= k <= max and returns k;
\* it rejects, with a message and no value, every numeral of an integer outside
\* the bounds and every text that is not an optional "-" followed by digits only.
C6_IntInRange ==
    /\ InMain => \A i \in IntFields :
          DictHas(state, SCHEMA[i].name) =>
              /\ Answer(SCHEMA[i].name).t = "int"
              /\ Answer(SCHEMA[i].name).n \in IntRange(SCHEMA[i])
    /\ (pc = "returned" /\ call.fn = "validator" /\ call.field \in IntFields) =>
          /\ \A k \in (SCHEMA[call.field].min_v.n - 1)..(SCHEMA[call.field].max_v.n + 1) :
                Strip(call.text) = ToString(k) =>
                    /\ ret.ok <=> k \in IntRange(SCHEMA[call.field])
                    /\ ret.ok => ret.value = PyInt(k)
          /\ ~IsSignedInt(Strip(call.text)) => ~ret.ok
          /\ ret.ok => (ret.value.t = "int" /\ ret.value.n \in IntRange(SCHEMA[call.field]))
          /\ ~ret.ok => ret.value = None
          /\ (IsSignedInt(Strip(call.text))
                /\ ~SpellsInRange(SCHEMA[call.field], Strip(call.text)))
                => (ret.raised = "" /\ ~ret.ok /\ ret.err # "")

ChoiceFields == {i \in 1..NFields : SCHEMA[i].validator = "one_of"}

\* the options whose lower-cased form is the trimmed, lower-cased text
Matching(options, text) ==
    {j \in 1..Len(options) : Lower(options[j]) = Lower(Strip(text))}

\* C7: one_of accepts a text exactly when its trimmed, lower-cased form is the
\* lower-cased form of an option, and returns that option as the list spells it;
\* a rejection message holds every option; an answer committed for a choice
\* field is an option as spelled ("urban" typed commits "Urban").
C7_OneOf ==
    /\ InMain => \A i \in ChoiceFields :
          DictHas(state, SCHEMA[i].name) =>
              \E j \in 1..Len(SCHEMA[i].options) :
                  Answer(SCHEMA[i].name) = PyStr(SCHEMA[i].options[j])
    /\ (pc = "loop" /\ read = <<"urban">> /\ idx = FieldIndex("Location") + 1)
          => Answer("Location") = PyStr("Urban")
    /\ (pc = "returned" /\ call.fn = "validator" /\ call.field \in ChoiceFields) =>
          /\ ret.ok <=> Matching(SCHEMA[call.field].options, call.text) # {}
          /\ ret.ok => \E j \in Matching(SCHEMA[call.field].options, call.text) :
                          ret.value = PyStr(SCHEMA[call.field].options[j])
          /\ ~ret.ok =>
                /\ ret.value = None
                /\ \A j \in 1..Len(SCHEMA[call.field].options) :
                      Contains(ret.err, SCHEMA[call.field].options[j])

\* C7 witness: "urban" was typed at Location and "Urban" is the answer
C7_Witness ==
    /\ pc = "loop"
    /\ read = <<"urban">>
    /\ idx = FieldIndex("Location") + 1
    /\ Answer("Location") = PyStr("Urban")

\* the text detect_persona looks at
Heard == Strip(Lower(call.text))

\* C8: detect_persona returns one of the four labels: aggressive when the text
\* holds a negative word or "!", whatever else it holds; else evasive when it
\* matches an evasion pattern; else confused when it holds a confusion cue; else
\* cooperative.  A negative word with "?" is aggressive, an evasion pattern
\* with "!" is aggressive, an evasion pattern with a confusion cue is evasive.
C8_PersonaPrecedence ==
    (pc = "returned" /\ call.fn = "detect_persona") =>
        /\ ret.s \in {"aggressive", "evasive", "confused", "cooperative"}
        /\ ret.s = "aggressive" <=> HasAggressiveCue(Heard)
        /\ ret.s = "evasive" <=> (~HasAggressiveCue(Heard) /\ HasEvasiveCue(Heard))
        /\ ret.s = "confused" <=>
              (~HasAggressiveCue(Heard) /\ ~HasEvasiveCue(Heard) /\ HasConfusedCue(Heard))
        /\ call.text \in {"I hate this?", "maybe later!", "no way!"} => ret.s = "aggressive"
        /\ call.text \in {"not sure, help", "i don't know how"} => ret.s = "evasive"
        /\ call.text \in {"what?", "how", "HELP"} => ret.s = "confused"
        /\ call.text \in {"", "C001", "skipper"} => ret.s = "cooperative"

\* C8 witness: a negative word and a question mark together are aggressive
C8_Witness ==
    /\ pc = "returned"
    /\ call.fn = "detect_persona"
    /\ call.text = "I hate this?"
    /\ HasConfusedCue(Heard)
    /\ ret = PyStr("aggressive")

\* C9: with USE_LLM false, maybe_llm_rewrite returns its text and sends no
\* request, whatever the persona, the role and the service; the prompt awaited
\* is what style_prompt made of the field's prompt, the error written is what
\* style_error made of the validator's message, and the note after a missed
\* payment is what style_prompt made of it.
C9_DisabledIsIdentity ==
    ~USE_LLM =>
        /\ requests = 0
        /\ (pc = "returned" /\ call.fn = "maybe_llm_rewrite") => ret = PyStr(call.text)
        /\ pc = "input" =>
              /\ prompt = style_prompt(SCHEMA[idx].prompt, persona)
              /\ tries = 0 => out = <<InputPrompt(prompt)>>
              /\ tries > 0 =>
                    out = <<style_error(Turns[idx][read[1]].res.err,
                                        Turns[idx][read[1]].turn_persona),
                            InputPrompt(prompt)>>
        /\ (pc = "loop" /\ read # <<>>) =>
              out = IF MissedIsPositive /\ idx = FieldIndex("MissedPayments") + 1
                    THEN <<style_prompt(AckNote, persona)>>
                    ELSE <<>>

\* C9 witness: maybe_llm_rewrite returned its text although the service would
\* have answered with another
C9_Witness ==
    /\ ~USE_LLM
    /\ pc = "returned"
    /\ call.fn = "maybe_llm_rewrite"
    /\ call.reply = Reply("content", " Kindly answer. ")
    /\ ret = PyStr(call.text)
    /\ requests = 0

\* the service failed: it is not there, it raised, or its response is malformed
\* or empty
Failed(reply) ==
    \/ reply.kind \in {"unavailable", "error", "malformed"}
    \/ reply.kind = "content" /\ Strip(reply.content) = ""

\* C10: with USE_LLM true and a service that fails in any way (not there,
\* raising, a malformed or an empty response), maybe_llm_rewrite returns its
\* text unchanged.
C10_FallbackOnFailure ==
    (USE_LLM /\ pc = "returned" /\ call.fn = "maybe_llm_rewrite" /\ Failed(call.reply))
        => ret = PyStr(call.text)

\* main() has ended without reaching Complete
EndedEarly == pc \in {"eof", "raised"}

\* C11: a run that ended before Complete ended at the end of the input, while
\* a field that is asked was awaiting its answer, and wrote no summary; no
\* exception out of a validator, a predicate or the rewriter ends a run.
C11_OnlyEndOfInputEnds ==
    EndedEarly =>
        /\ pc = "eof"
        /\ idx <= NFields
        /\ should_ask(SCHEMA[idx], state)
        /\ ~DictHas(state, SCHEMA[idx].name)
        /\ out = <<>>

\* the step adds one entry, last: the field the loop is at, which had no answer,
\* with the value its validator returned for the line read
CommitsCurrentField ==
    /\ pc = "input"
    /\ idx <= NFields
    /\ ~DictHas(state, SCHEMA[idx].name)
    /\ read' # <<>>
    /\ Turns[idx][read'[1]].res.ok
    /\ state' = Append(state, [k |-> SCHEMA[idx].name, v |-> Turns[idx][read'[1]].res.value])

\* C12: every step leaves the answers as they are or adds one entry, for the
\* current field, with its validated value: no entry is removed or overwritten;
\* the keys are distinct and are in the order of the schema.
C12_AnswersMonotonic ==
    /\ [][state' = state \/ CommitsCurrentField]_vars
    /\ [](InSchemaOrder
            /\ \A j \in 1..Len(state) : \E i \in 1..NFields : state[j].k = SCHEMA[i].name)

\* C12 witness: the last field was just committed, after all the others
C12_Witness ==
    /\ pc = "loop"
    /\ idx = NFields + 1
    /\ Len(state) = NFields
    /\ state[NFields].k = "Target"
    /\ DictHas(state, "PartialPayments")

\* the step passes the current field over: nothing written, nothing read,
\* nothing committed
SkipsCurrentField ==
    /\ pc = "loop"
    /\ pc' = "loop"
    /\ out' = <<>>
    /\ read' = <<>>
    /\ state' = state
    /\ ~DictHas(state, SCHEMA[idx].name)

\* the step ends with a prompt awaiting its answer: the prompt of the field the
\* loop is at, which has no answer yet
PromptsCurrentField ==
    /\ idx' = idx
    /\ idx <= NFields
    /\ ~DictHas(state', SCHEMA[idx].name)
    /\ Len(out') >= 1
    /\ ~USE_LLM => out'[Len(out')] = InputPrompt(style_prompt(SCHEMA[idx].prompt, persona))

\* C13: the index of the loop never goes back and moves on one field at a time,
\* by a step that passes the field over (no prompt, no line read, no key) or by
\* the step that accepts its answer; a prompt is only ever written for the field
\* the loop is at, every answer held is of a field before it, and Complete comes
\* only after the last field.
C13_NoBacktracking ==
    /\ [][/\ idx' \in {idx, idx + 1}
          /\ idx' = idx + 1 => (SkipsCurrentField \/ (CommitsCurrentField /\ pc' = "loop"))
          /\ pc' = "input" => PromptsCurrentField
          /\ (pc' = "done" /\ pc # "done") => idx = NFields + 1]_vars
    /\ [](InMain => \A j \in 1..Len(state) : FieldIndex(state[j].k) < idx)

\* C13 witness: PartialPayments was passed over and the prompt of the field
\* after it is awaiting its answer
C13_Witness ==
    /\ pc = "input"
    /\ idx = FieldIndex("PartialPayments") + 1
    /\ DictHas(state, "DelaysDays")
    /\ ~DictHas(state, "PartialPayments")
    /\ tries = 0

\* should_ask is about to evaluate the depends_on of the current field
EvaluatesPredicate ==
    pc = "loop" /\ idx <= NFields /\ SCHEMA[idx].depends_on # "None"

\* C14: when the predicate of a field is evaluated, every field it reads comes
\* earlier in the schema and has its answer already.
C14_NoForwardReference ==
    EvaluatesPredicate =>
        \A key \in Reads(SCHEMA[idx].depends_on) :
            FieldIndex(key) < idx /\ DictHas(state, key)

\* the persona detect_persona gives for the line the step read
Detected == Turns[idx][read'[1]].turn_persona

\* C15: the persona is cooperative at the first prompt and changes only when a
\* line is read, to the persona detected from that line; with no rewriter, the
\* error written for a rejected line, the prompt written again after it, the
\* note after MissedPayments and the prompt of the next field all carry the
\* styling of the persona detected from the latest line.
C15_StyledWithLatestPersona ==
    [][/\ (pc = "start" /\ pc' = "loop") => persona' = "cooperative"
       /\ persona' # persona => (pc = "input" /\ read' # <<>>)
       /\ (pc = "input" /\ pc' = "loop") =>
             /\ persona' = Detected
             /\ (~USE_LLM /\ out' # <<>>) => out' = <<style_prompt(AckNote, Detected)>>
       /\ (pc = "input" /\ pc' = "input" /\ ~USE_LLM) =>
             out' = <<style_error(Turns[idx][read'[1]].res.err, Detected),
                      InputPrompt(style_prompt(SCHEMA[idx].prompt, Detected))>>
       /\ (pc = "loop" /\ pc' = "input" /\ ~USE_LLM) =>
             out' = <<InputPrompt(style_prompt(SCHEMA[idx].prompt, persona))>>]_vars

\* text ends with the note
EndsWithNote(text) ==
    /\ Len(text) >= Len(AckNote)
    /\ SubSeq(text, Len(text) - Len(AckNote) + 1, Len(text)) = AckNote

\* the step commits a MissedPayments greater than 0
CommitsMissed ==
    /\ pc = "input"
    /\ pc' = "loop"
    /\ SCHEMA[idx].name = "MissedPayments"
    /\ NumLess(PyInt(0), Turns[idx][read'[1]].res.value)

\* C16: the step that commits a MissedPayments greater than 0 writes one text,
\* the note, and leaves the loop at DelaysDays with its prompt not yet written;
\* every other step writes no note; the step with the note does to the answers,
\* the persona and the index what every accepting step does: one entry more, the
\* persona detected from the line, the index one further.
C16_OneAcknowledgement ==
    [][/\ CommitsMissed =>
             /\ Len(out') = 1
             /\ ~USE_LLM => out'[1] = style_prompt(AckNote, persona')
             /\ idx' = FieldIndex("DelaysDays")
             /\ state' = Append(state, [k |-> "MissedPayments",
                                        v |-> Turns[idx][read'[1]].res.value])
             /\ persona' = Detected
       /\ ((pc = "input" /\ pc' = "loop") /\ ~CommitsMissed) =>
             /\ out' = <<>>
             /\ idx' = idx + 1
             /\ Len(state') = Len(state) + 1
             /\ persona' = Detected
       /\ (~CommitsMissed /\ ~USE_LLM) => \A j \in 1..Len(out') : ~EndsWithNote(out'[j])]_vars

\* C16 witness: MissedPayments 24 was committed and the note, with the
\* cooperative lead-in, is the one text written since
C16_Witness ==
    /\ pc = "loop"
    /\ idx = FieldIndex("DelaysDays")
    /\ ~USE_LLM
    /\ Answer("MissedPayments") = PyInt(24)
    /\ out = <<"Thanks! Noted. We'll consider a supportive repayment plan.">>

\* C17: a validator of the schema, whatever the text, returns (it does not
\* raise) either success with a value and an empty error text, or failure with
\* no value and an error text that is not empty.
C17_TaggedOutcome ==
    (pc = "returned" /\ call.fn = "validator") =>
        /\ ret.raised = ""
        /\ ret.ok => (ret.value # None /\ ret.err = "")
        /\ ~ret.ok => (ret.value = None /\ ret.err # "")

\* what the validator of field i returns for a line, persona and styling apart
Verdict ==
    [i \in 1..NFields |->
        [line \in Typed(i) \cup ScenarioLines |-> Validate(SCHEMA[i], Strip(line))]]

\* where control is, the index and the answers after the step are as given
DataBecomes(where, i, answers) == pc' = where /\ idx' = i /\ state' = answers

\* C18: where the run goes, which field it is at and what the answers are after
\* a step are decided by where it was, the field, the answers and the line read,
\* and by nothing else: not by the persona, the prompt, USE_LLM or what the
\* rewriter made of a text.  Two runs fed the same lines therefore accept and
\* reject the same lines, prompt the same fields and hold the same answers.
C18_StylingDoesNotSteer ==
    [][/\ (pc = "loop" /\ idx > NFields) => DataBecomes("done", idx, state)
       /\ (pc = "loop" /\ idx <= NFields) =>
             IF should_ask(SCHEMA[idx], state)
             THEN DataBecomes("input", idx, state)
             ELSE DataBecomes("loop", idx + 1, state)
       /\ (pc = "input" /\ read' = <<>>) => DataBecomes("eof", idx, state)
       /\ (pc = "input" /\ read' # <<>>) =>
             IF Verdict[idx][read'[1]].raised # ""
             THEN DataBecomes("raised", idx, state)
             ELSE IF Verdict[idx][read'[1]].ok
             THEN DataBecomes("loop", idx + 1,
                              Append(state, [k |-> SCHEMA[idx].name,
                                             v |-> Verdict[idx][read'[1]].value]))
             ELSE DataBecomes("input", idx, state)]_vars

\* C18 witness: with an aggressive persona and a prompt the rewriter replaced,
\* "17" was rejected at Age as it is with any persona and no rewriter
C18_Witness ==
    /\ pc = "input"
    /\ SCHEMA[idx].name = "Age"
    /\ USE_LLM
    /\ persona = "aggressive"
    /\ prompt = "Kindly answer."
    /\ read = <<"17">>
    /\ tries = 1
    /\ Len(state) = 1

\* C19: a text a numeric or a choice validator accepts is cooperative for
\* detect_persona; so the persona is cooperative in main() except while the loop
\* is at Age, where it is the persona of the CustomerID typed; with no rewriter
\* the prompt of every field but Age, and the note after MissedPayments, begin
\* with the cooperative lead-in.
C19_CooperativeButAtAge ==
    /\ (pc = "returned" /\ call.fn = "validator" /\ ret.ok
            /\ SCHEMA[call.field].name # "CustomerID")
          => detect_persona(call.text) = "cooperative"
    /\ (InMain /\ idx # FieldIndex("Age")) => persona = "cooperative"
    /\ (pc = "input" /\ ~USE_LLM /\ idx # FieldIndex("Age"))
          => prompt = "Thanks! " \o SCHEMA[idx].prompt
    /\ (pc = "loop" /\ ~USE_LLM /\ read # <<>> /\ out # <<>>)
          => out = <<"Thanks! " \o AckNote>>

\* C19 witness: the Age prompt awaits its answer with the aggressive lead-in,
\* after a CustomerID that holds a negative word
C19_Witness ==
    /\ pc = "input"
    /\ idx = FieldIndex("Age")
    /\ ~USE_LLM
    /\ Answer("CustomerID") = PyStr("mad_max")
    /\ persona = "aggressive"
    /\ prompt = "I'm here to help. " \o SCHEMA[idx].prompt

=============================================================================
